---- MODULE Spec2Model ----
(***************************************************************************)
(* A model of peridynamics/utilities.py: the displacement ramp             *)
(* (calc_build_time, _calc_midpoint_gradient, calc_displacement_scale)     *)
(* and the HDF5 array store (write_array, read_array).                     *)
(*                                                                         *)
(* Numbers.  The code computes in IEEE doubles; the model computes the     *)
(* same expressions exactly.  A number is a record [n, d, b, e] standing   *)
(* for (n / d) * b^e: a reduced fraction times a power of a base.  The     *)
(* base is the candidate build time T, so that the entries 20 * T**3 of    *)
(* the linear system and its solution are held without ever multiplying    *)
(* T**5 out (T reaches 1000 in the documented example).  d = 0 stands for  *)
(* np.inf.                                                                 *)
(***************************************************************************)
EXTENDS Integers, Sequences, FiniteSets, TLC

VARIABLES
    pc,                     \* "loop" | "returned" | "raised" | "store"
    build_displacement,     \* argument of calc_build_time / calc_displacement_scale
    max_displacement_rate,  \* argument of both
    steps,                  \* argument of calc_build_time
    max_displacement,       \* argument of calc_displacement_scale
    build_time,             \* local of calc_build_time, then its first result
    midpoint_gradient,      \* local of calc_build_time
    coefficients,           \* local of calc_build_time (<<>>: not yet bound), then its second result
    step,                   \* the step of the next calc_displacement_scale call
    ease_off,               \* threaded from each call to the next
    displacement_bc_rate,   \* the rate the last call returned
    phase,                  \* the branch the last call took
    total,                  \* the sum of the rates returned so far
    exists,                 \* the HDF5 files on disk
    stored,                 \* stored[path][dataset]: the array held, 0 for none
    outcome                 \* what the last write_array / read_array call did

vars == <<pc, build_displacement, max_displacement_rate, steps, max_displacement,
          build_time, midpoint_gradient, coefficients, step, ease_off,
          displacement_bc_rate, phase, total, exists, stored, outcome>>

rampVars == <<step, ease_off, displacement_bc_rate, phase, total>>
buildVars == <<build_time, midpoint_gradient, coefficients>>
inputVars == <<build_displacement, max_displacement_rate, steps, max_displacement>>
storeVars == <<exists, stored, outcome>>

\* ------------------------------------------------------------------ bounds
MaxD == 3
MaxR == 3
MaxS == 8
MaxM == 4
NumPaths == 2
NumKeys == 2
NumArrays == 2

\* Enough steps for every ramp of the bounded inputs to ease off and clamp.
MaxStep == MaxS + MaxM + 3

\* ----------------------------------------------------------------- numbers
RECURSIVE Gcd(_, _)
Gcd(x, y) == IF y = 0 THEN x ELSE Gcd(y, x % y)

Abs(x) == IF x < 0 THEN -x ELSE x

RECURSIVE IPow(_, _)
IPow(x, k) == IF k = 0 THEN 1 ELSE x * IPow(x, k - 1)

Zero == [n |-> 0, d |-> 1, b |-> 1, e |-> 0]
Inf == [n |-> 1, d |-> 0, b |-> 1, e |-> 0]

\* The canonical record of (n / d) * b^e, d > 0.
Canon(n, d, b, e) ==
    IF n = 0 THEN Zero
    ELSE LET g == Gcd(Abs(n), d)
             plain == (b = 1) \/ (e = 0)
         IN [n |-> n \div g, d |-> d \div g,
             b |-> IF plain THEN 1 ELSE b, e |-> IF plain THEN 0 ELSE e]

Rat(n, d) == Canon(n, d, 1, 0)
Whole(n) == Rat(n, 1)

\* The same number with the power of the base multiplied out.
Plain(x) ==
    IF x.e = 0 THEN x
    ELSE IF x.e > 0 THEN Canon(x.n * IPow(x.b, x.e), x.d, 1, 0)
    ELSE Canon(x.n, x.d * IPow(x.b, -x.e), 1, 0)

NNeg(x) == [x EXCEPT !.n = -x.n]

RECURSIVE NMul(_, _)
NMul(x, y) ==
    IF x.e = 0 THEN Canon(x.n * y.n, x.d * y.d, y.b, y.e)
    ELSE IF y.e = 0 THEN Canon(x.n * y.n, x.d * y.d, x.b, x.e)
    ELSE IF x.b = y.b THEN Canon(x.n * y.n, x.d * y.d, x.b, x.e + y.e)
    ELSE NMul(Plain(x), Plain(y))

RECURSIVE NAdd(_, _)
NAdd(x, y) ==
    IF x.n = 0 THEN y
    ELSE IF y.n = 0 THEN x
    ELSE IF x.b = y.b /\ x.e = y.e
         THEN LET l == (x.d \div Gcd(x.d, y.d)) * y.d
              IN Canon(x.n * (l \div x.d) + y.n * (l \div y.d), l, x.b, x.e)
    ELSE NAdd(Plain(x), Plain(y))

NSub(x, y) == NAdd(x, NNeg(y))

\* 1 / x, x # 0.
NInv(x) == IF x.n > 0 THEN [n |-> x.d, d |-> x.n, b |-> x.b, e |-> -x.e]
           ELSE [n |-> -x.d, d |-> -x.n, b |-> x.b, e |-> -x.e]

NDiv(x, y) == NMul(x, NInv(y))

RECURSIVE NPow(_, _)
NPow(x, k) == IF k = 0 THEN Whole(1) ELSE NMul(x, NPow(x, k - 1))

\* x <= y, either of which may be Inf.
NLe(x, y) ==
    IF y.d = 0 THEN TRUE
    ELSE IF x.d = 0 THEN FALSE
    ELSE LET p == Plain(x)
             q == Plain(y)
         IN p.n * q.d <= q.n * p.d

NLt(x, y) == ~NLe(y, x)
NGt(x, y) == ~NLe(x, y)

\* c * T**k as the code writes it: 0 when T = 0 (k > 0).
Mono(c, T, k) == Canon(IF T = 0 THEN 0 ELSE c, 1, T, k)

\* build_time / 2 (true division).
Half(T) == Rat(T, 2)

\* ------------------------------------------------ _calc_midpoint_gradient
\* The matrix A of the constraint system at T (lines 72-77).
Matrix(T) ==
    << <<Mono(1, T, 5), Mono(1, T, 4), Mono(1, T, 3)>>,
       <<Mono(20, T, 3), Mono(12, T, 2), Mono(6, T, 1)>>,
       <<Mono(5, T, 4), Mono(4, T, 3), Mono(3, T, 2)>> >>

\* The right-hand side b (lines 78-83).
Rhs(displacement) == <<displacement, Zero, Zero>>

Det3(A) ==
    NAdd(NSub(NMul(A[1][1], NSub(NMul(A[2][2], A[3][3]), NMul(A[2][3], A[3][2]))),
              NMul(A[1][2], NSub(NMul(A[2][1], A[3][3]), NMul(A[2][3], A[3][1])))),
         NMul(A[1][3], NSub(NMul(A[2][1], A[3][2]), NMul(A[2][2], A[3][1]))))

ReplaceCol(A, j, v) ==
    [i \in 1..3 |-> [k \in 1..3 |-> IF k = j THEN v[i] ELSE A[i][k]]]

\* np.linalg.solve(A, b) for a 3x3 system: the exact solution (Cramer's
\* rule), or LinAlgError("Singular matrix") when A is singular.
linalg_solve(A, v) ==
    LET det == Det3(A)
    IN IF det.n = 0
       THEN [ok |-> FALSE, x |-> <<>>]
       ELSE [ok |-> TRUE,
             x |-> [j \in 1..3 |-> NDiv(Det3(ReplaceCol(A, j, v)), det)]]

\* 5 * a * t**4 + 4 * b * t**3 + 3 * c * t**2: the rate of the quintic at t
\* (lines 88-89, 126, 134).
Gradient(coeffs, t) ==
    NAdd(NAdd(NMul(NMul(Whole(5), coeffs[1]), NPow(t, 4)),
              NMul(NMul(Whole(4), coeffs[2]), NPow(t, 3))),
         NMul(NMul(Whole(3), coeffs[3]), NPow(t, 2)))

\* _calc_midpoint_gradient(T, displacement): ok = FALSE when the solve raises.
calc_midpoint_gradient(T, displacement) ==
    LET sol == linalg_solve(Matrix(T), Rhs(displacement))
    IN IF ~sol.ok
       THEN [ok |-> FALSE, midpoint_gradient |-> Inf, coefficients |-> <<>>]
       ELSE [ok |-> TRUE,
             midpoint_gradient |->
                 Gradient(sol.x, NMul(Rat(1, 2), Mono(1, T, 1))),
             coefficients |-> sol.x]

\* --------------------------------------------------------- calc_build_time
\* The while condition (line 172).
WhileCondition(gradient, rate) == NGt(gradient, rate)

\* The budget test taken one step late, and one step early.
BudgetExceededLate(time, budget) == time > budget + 1

BudgetExceededEarly(time, budget) == time >= budget

\* The budget test after the increment (line 182).
BudgetExceeded(time, budget) == time > budget

\* One pass of the while loop (lines 172-188) and the loop test that
\* follows it: the try/except around the solve, the increment, the raise.
Iterate ==
    /\ pc = "loop"
    /\ LET r == calc_midpoint_gradient(build_time, build_displacement)
           gradient == IF r.ok THEN r.midpoint_gradient ELSE midpoint_gradient
           time == build_time + 1
       IN /\ midpoint_gradient' = gradient
          /\ coefficients' = IF r.ok THEN r.coefficients ELSE coefficients
          /\ build_time' = time
          /\ pc' = IF BudgetExceeded(time, steps) THEN "raised"
                   ELSE IF WhileCondition(gradient, max_displacement_rate)
                        THEN "loop"
                   ELSE "returned"
    /\ UNCHANGED <<inputVars, rampVars, storeVars>>

\* ------------------------------------------------- calc_displacement_scale
\* The argument of the quintic in the deceleration branch (line 130).
EaseTime(time, at, eased) == NAdd(Whole(at - eased), Half(time))

\* The branch a call takes (lines 125, 129, 131, 137).
Branch(time, at, eased) ==
    IF NLt(Whole(at), Half(time)) THEN "acceleration"
    ELSE IF eased # 0
         THEN IF NGt(EaseTime(time, at, eased), Whole(time)) THEN "clamped"
              ELSE "deceleration"
    ELSE "constant"

\* The test below with <= for <.
BelowMaxInclusive(maxDisp, time, rate, at, buildDisp) ==
    NLe(NAdd(NAdd(NMul(NSub(Whole(at), Half(time)), rate),
                  NMul(buildDisp, Rat(1, 2))),
             NMul(buildDisp, Rat(1, 2))),
        maxDisp)

\* Whether the constant-rate branch keeps ease_off (lines 139-142).
BelowMax(maxDisp, time, rate, at, buildDisp) ==
    LET linear_time == NSub(Whole(at), Half(time))
        linear_displacement == NMul(linear_time, rate)
        displacement == NAdd(linear_displacement, NMul(buildDisp, Rat(1, 2)))
    IN NLt(NAdd(displacement, NMul(buildDisp, Rat(1, 2))), maxDisp)

\* calc_displacement_scale with a deceleration branch that lacks the clamp
\* to 0.
ScaleWithoutClamp(coeffs, maxDisp, time, rate, at, buildDisp, eased) ==
    LET branch == Branch(time, at, eased)
    IN IF branch = "acceleration"
       THEN [displacement_bc_rate |-> Plain(Gradient(coeffs, Whole(at))),
             ease_off |-> eased]
       ELSE IF branch \in {"clamped", "deceleration"}
       THEN [displacement_bc_rate |->
                 Plain(Gradient(coeffs, EaseTime(time, at, eased))),
             ease_off |-> eased]
       ELSE IF BelowMax(maxDisp, time, rate, at, buildDisp)
       THEN [displacement_bc_rate |-> rate, ease_off |-> eased]
       ELSE [displacement_bc_rate |-> rate, ease_off |-> at]

\* calc_displacement_scale (lines 123-147): the pair it returns.
calc_displacement_scale(coeffs, maxDisp, time, rate, at, buildDisp, eased) ==
    LET branch == Branch(time, at, eased)
    IN IF branch = "acceleration"
       THEN [displacement_bc_rate |-> Plain(Gradient(coeffs, Whole(at))),
             ease_off |-> eased]
       ELSE IF branch = "clamped"
       THEN [displacement_bc_rate |-> Zero, ease_off |-> eased]
       ELSE IF branch = "deceleration"
       THEN [displacement_bc_rate |->
                 Plain(Gradient(coeffs, EaseTime(time, at, eased))),
             ease_off |-> eased]
       ELSE IF BelowMax(maxDisp, time, rate, at, buildDisp)
       THEN [displacement_bc_rate |-> rate, ease_off |-> eased]
       ELSE [displacement_bc_rate |-> rate, ease_off |-> at]

\* The simulation's next step: one call of calc_displacement_scale with the
\* ramp calc_build_time returned, the returned ease_off kept for the next.
RampStep ==
    /\ pc = "returned"
    /\ step <= MaxStep
    /\ LET r == calc_displacement_scale(coefficients, max_displacement,
                    build_time, max_displacement_rate, step,
                    build_displacement, ease_off)
       IN /\ displacement_bc_rate' = r.displacement_bc_rate
          /\ ease_off' = r.ease_off
          /\ total' = NAdd(total, r.displacement_bc_rate)
    /\ phase' = Branch(build_time, step, ease_off)
    /\ step' = step + 1
    /\ UNCHANGED <<pc, inputVars, buildVars, storeVars>>

\* ------------------------------------------------------------ the ramp run
InitRamp ==
    /\ step = 0
    /\ ease_off = 0
    /\ displacement_bc_rate = Zero
    /\ phase = "none"
    /\ total = Zero

InitStore ==
    /\ exists = {}
    /\ stored = [p \in 1..NumPaths |-> [k \in 1..NumKeys |-> 0]]
    /\ outcome = [op |-> "none", path |-> 0, dataset |-> 0, result |-> "none",
                  error |-> "", array |-> 0]

\* calc_build_time's entry (lines 169-171): np.inf exceeds every finite rate,
\* so the loop is entered.
InitBuild ==
    /\ build_time = 0
    /\ midpoint_gradient = Inf
    /\ coefficients = <<>>
    /\ pc = "loop"

\* The rates of the runs: positive, and one of them (15/8) met exactly by the
\* midpoint gradient 15 D / (8 T) of a candidate T.
Rates == {Whole(x) : x \in 1..MaxR} \cup {Rat(15, 8)}

Init ==
    /\ build_displacement \in {Whole(x) : x \in 0..MaxD}
    /\ max_displacement_rate \in Rates
    /\ steps \in 0..MaxS
    /\ max_displacement \in {Whole(x) : x \in 0..MaxM}
    /\ InitBuild
    /\ InitRamp
    /\ InitStore

Next == Iterate \/ RampStep

Spec == Init /\ [][Next]_vars

\* ------------------------------------------------------ the documented example
\* calc_build_time(build_displacement=0.5, max_displacement_rate=1e-4,
\* steps=1000).
InitExample ==
    /\ build_displacement = Rat(1, 2)
    /\ max_displacement_rate = Rat(1, 10000)
    /\ steps = 1000
    /\ max_displacement = Rat(1, 2)
    /\ InitBuild
    /\ InitRamp
    /\ InitStore

ExampleSpec == InitExample /\ [][Iterate]_vars

\* ------------------------------------------------------------ the HDF5 store
Paths == 1..NumPaths
Keys == 1..NumKeys
Arrays == 1..NumArrays

\* `except IOError` catches OSError (IOError is its alias) and nothing else
\* raised here (lines 40, 46).
CaughtAsIOError(exc) == exc = "OSError"

\* h5py.File(read_path, 'r') (line 37): OSError when there is no such file.
OpenForRead(path) == IF path \in exists THEN "ok" ELSE "OSError"

\* hf[dataset][:] (line 39): KeyError when the file holds no such dataset.
GetItem(path, dataset) == IF stored[path][dataset] # 0 THEN "ok" ELSE "KeyError"

\* read_array (lines 36-51): what the call does.  An exception of the
\* lookup that the inner handler caught would leave `array` unbound at the
\* return of line 45.
read_array(path, dataset) ==
    LET opened == OpenForRead(path)
        got == GetItem(path, dataset)
    IN IF opened # "ok"
       THEN IF CaughtAsIOError(opened)
            THEN [result |-> "None", error |-> "", array |-> 0]
            ELSE [result |-> "raised", error |-> opened, array |-> 0]
       ELSE IF got = "ok"
       THEN [result |-> "array", error |-> "", array |-> stored[path][dataset]]
       ELSE IF CaughtAsIOError(got)
       THEN [result |-> "raised", error |-> "UnboundLocalError", array |-> 0]
       ELSE [result |-> "raised", error |-> got, array |-> 0]

\* write_array (lines 20-21): mode 'a' creates the file; create_dataset
\* raises when the name is taken.
WriteArray ==
    /\ pc = "store"
    /\ \E path \in Paths, dataset \in Keys, array \in Arrays :
          /\ exists' = exists \cup {path}
          /\ IF stored[path][dataset] # 0
             THEN /\ stored' = stored
                  /\ outcome' = [op |-> "write_array", path |-> path,
                                 dataset |-> dataset, result |-> "raised",
                                 error |-> "ValueError", array |-> 0]
             ELSE /\ stored' = [stored EXCEPT ![path][dataset] = array]
                  /\ outcome' = [op |-> "write_array", path |-> path,
                                 dataset |-> dataset, result |-> "None",
                                 error |-> "", array |-> 0]
    /\ UNCHANGED <<pc, inputVars, buildVars, rampVars>>

ReadArray ==
    /\ pc = "store"
    /\ \E path \in Paths, dataset \in Keys :
          LET r == read_array(path, dataset)
          IN outcome' = [op |-> "read_array", path |-> path, dataset |-> dataset,
                         result |-> r.result, error |-> r.error, array |-> r.array]
    /\ UNCHANGED <<pc, inputVars, buildVars, rampVars, exists, stored>>

InitStoreOnly ==
    /\ pc = "store"
    /\ build_displacement = Zero
    /\ max_displacement_rate = Zero
    /\ steps = 0
    /\ max_displacement = Zero
    /\ build_time = 0
    /\ midpoint_gradient = Inf
    /\ coefficients = <<>>
    /\ InitRamp
    /\ InitStore

NextStore == WriteArray \/ ReadArray

StoreSpec == InitStoreOnly /\ [][NextStore]_vars

\* ------------------------------------------------------------------ claims
\* T is feasible: the system at T is solvable and the midpoint gradient of
\* its solution is within the rate.
Feasible(T) ==
    LET r == calc_midpoint_gradient(T, build_displacement)
    IN r.ok /\ NLe(r.midpoint_gradient, max_displacement_rate)

\* a t^5 + b t^4 + c t^3 and its second derivative.
Position(coeffs, t) ==
    Plain(NAdd(NAdd(NMul(coeffs[1], NPow(t, 5)), NMul(coeffs[2], NPow(t, 4))),
               NMul(coeffs[3], NPow(t, 3))))

Acceleration(coeffs, t) ==
    Plain(NAdd(NAdd(NMul(NMul(Whole(20), coeffs[1]), NPow(t, 3)),
                    NMul(NMul(Whole(12), coeffs[2]), NPow(t, 2))),
               NMul(NMul(Whole(6), coeffs[3]), t)))

Positive(x) == NLt(Zero, x)

\* C1: the T calc_build_time returns is the least feasible T: it is
\* feasible and no smaller T is.
C1_ReturnsMinimalT ==
    pc = "returned" =>
        /\ Feasible(build_time)
        /\ \A u \in 0..(build_time - 1) : ~Feasible(u)

\* C2: the returned coefficients solve the constraint system at the returned
\* T: x(T) = build_displacement, x''(T) = 0 and x'(T) = 0.
C2_CoefficientsSolveAtReturnedT ==
    pc = "returned" =>
        /\ Position(coefficients, Whole(build_time)) = build_displacement
        /\ Acceleration(coefficients, Whole(build_time)) = Zero
        /\ Plain(Gradient(coefficients, Whole(build_time))) = Zero

\* C3 as stated: the documented example returns, with a midpoint gradient
\* within the rate.
C3_ExampleReturns ==
    pc # "loop" => pc = "returned" /\ NLe(midpoint_gradient, max_displacement_rate)

\* C3 as amended: the documented example raises the budget error, having
\* tried every T up to steps and found each gradient above the rate.
C3_ExampleRaises ==
    /\ pc \in {"loop", "raised"}
    /\ NGt(midpoint_gradient, max_displacement_rate)
    /\ pc = "loop" => build_time <= steps
    /\ pc = "raised" => build_time = steps + 1

C3_Raised == pc = "raised" /\ steps = 1000 /\ build_time = 1001

\* C4: with a positive displacement and rate and no feasible T within steps,
\* calc_build_time does not return: the loop ends with the budget error.
C4_RaisesBelowMinimalT ==
    (/\ Positive(build_displacement)
     /\ Positive(max_displacement_rate)
     /\ \A T \in 0..steps : ~Feasible(T))
    => /\ pc # "returned"
       /\ pc = "loop" => build_time <= steps

C4_RaisedBelowMinimalT ==
    /\ pc = "raised"
    /\ Positive(build_displacement)
    /\ steps >= 2
    /\ \A T \in 0..steps : ~Feasible(T)

\* C5: every rate calc_displacement_scale returns in a run lies in
\* [0, max_displacement_rate].
C5_RateWithinBounds ==
    (pc = "returned" /\ step > 0) =>
        /\ NLe(Zero, displacement_bc_rate)
        /\ NLe(displacement_bc_rate, max_displacement_rate)

\* The claim's test: build_displacement + (step - build_time/2) *
\* max_displacement_rate >= max_displacement.
ReachedMax ==
    NLe(max_displacement,
        NAdd(build_displacement,
             NMul(NSub(Whole(step), Half(build_time)), max_displacement_rate)))

ConstantCall ==
    /\ pc = "returned"
    /\ ease_off = 0
    /\ NLe(Half(build_time), Whole(step))

C6_Step ==
    /\ ease_off' # ease_off =>
          /\ ConstantCall
          /\ ReachedMax
          /\ ease_off' = step
          /\ displacement_bc_rate' = max_displacement_rate
    /\ (ConstantCall /\ ReachedMax /\ step' = step + 1) => ease_off' = step
    /\ (ConstantCall /\ ~ReachedMax /\ step' = step + 1) =>
          /\ ease_off' = 0
          /\ displacement_bc_rate' = max_displacement_rate
    /\ (ease_off # 0 /\ step' = step + 1) =>
          /\ ease_off' = ease_off
          /\ phase' \in {"deceleration", "clamped"}

\* The run has made its last call, that of step MaxStep.
RunEnded == pc = "returned" /\ step > MaxStep

\* C6: in a run ease_off changes exactly once, from 0 to the step of the
\* first constant-phase call at which the displacement reaches
\* max_displacement; that call returns the full rate, every later call takes
\* the deceleration branch and leaves ease_off alone.  ("Exactly once": no
\* step changes it twice, and every run has changed it by its end.)
C6_EaseOffSetOnce ==
    /\ [][C6_Step]_vars
    /\ [](RunEnded => ease_off # 0)

C6_EasedOff == ease_off # 0 /\ phase = "deceleration"

C7_Step ==
    (pc = "returned" /\ ease_off # 0 /\ step' = step + 1) =>
        LET t == NAdd(Whole(step - ease_off), Half(build_time))
        IN IF NGt(t, Whole(build_time))
           THEN displacement_bc_rate' = Zero
           ELSE displacement_bc_rate' = Plain(Gradient(coefficients, t))

C7_Stays ==
    phase = "clamped" => phase' = "clamped" /\ displacement_bc_rate' = Zero

\* C7: once ease_off is e, a call with step - e + build_time/2 > build_time
\* returns 0 and any other returns the quintic's rate there; every run
\* reaches rate 0 (it has by its end) and, once clamped to 0, stays there.
C7_DecelerationEndsAtZero ==
    /\ [][C7_Step]_vars
    /\ [][C7_Stays]_vars
    /\ [](RunEnded => phase = "clamped" /\ displacement_bc_rate = Zero)

C7_Clamped ==
    /\ phase = "clamped"
    /\ displacement_bc_rate = Zero
    /\ Positive(build_displacement)
    /\ step > ease_off + build_time

\* C8: read_array returns None, and does not raise, when the file or the
\* dataset is absent.
C8_AbsentReadsNone ==
    (/\ outcome.op = "read_array"
     /\ (outcome.path \notin exists \/ stored[outcome.path][outcome.dataset] = 0))
    => outcome.result = "None"

\* C9: when some feasible T is within steps (T = steps included),
\* calc_build_time does not raise.
C9_ReturnsWithinBudget ==
    (\E T \in 0..steps : Feasible(T)) => pc # "raised"

\* C10: the rates of a run with max_displacement >= build_displacement sum to
\* at most max_displacement.
C10_TotalWithinMax ==
    (pc = "returned" /\ NLe(build_displacement, max_displacement)) =>
        NLe(total, max_displacement)
====
